---- MODULE Spec2Model ----
(***************************************************************************)
(* A model of the three independent programs of the repository:            *)
(*   - detectar_pessoas  (src/src/ia_m_uv/main.py), the per-frame          *)
(*     pedestrian counting loop;                                           *)
(*   - parse_args        (src/src/ia_m_uv/utils.py), the argument parser;  *)
(*   - GeminiClient      (src/src/ia_m_uv/algoritmos/gemini_integration.py)*)
(*     the wrapper around the generative-language service.                 *)
(* The programs share no state, so each has its own specification          *)
(* (SpecDetector / LiveDetector, SpecArgs, SpecClient); the variables of   *)
(* the other programs stay at their initial values.                        *)
(***************************************************************************)
EXTENDS Integers, Sequences, FiniteSets, TLC

VARIABLES
    \* ---- detectar_pessoas -------------------------------------------
    pc,          \* position in detectar_pessoas
    canOpen,     \* input: what cap.isOpened() answers
    video,       \* input: len(rects) the detector finds in each frame of the file
    pos,         \* the capture's cursor: frames delivered by cap.read() so far
    frame,       \* index of the frame held by the local `frame` (0: none)
    total,       \* total_pessoas_detectadas
    readLog,     \* frame indices returned by successful cap.read() calls, in order
    shownLog,    \* frame indices passed to cv2.imshow, in order
    lastKey,     \* what the last cv2.waitKey(1) returned
    exitBy,      \* which `break` left the loop: "none", "read" (line 19), "q" (line 39)
    released,    \* number of cap.release() calls
    destroyed,   \* number of cv2.destroyAllWindows() calls
    out,         \* console: the printed lines, in order
    \* ---- parse_args -------------------------------------------------
    argPc,       \* "start", "returned" (a namespace came back) or "exited" (SystemExit)
    argv,        \* input: sys.argv[1:]
    argResult,   \* what parse_args produced
    \* ---- GeminiClient -----------------------------------------------
    env,                        \* input: os.getenv("GOOGLE_API_KEY")
    apiKeyArg,                  \* input: the api_key argument of __init__
    personaArg,                 \* input: the system_instruction argument of __init__
    client,                     \* "unborn", "failed" (__init__ raised) or "live"
    configureCalls,             \* the api keys passed to genai.configure, in order
    modelsBuilt,                \* the personas of the GenerativeModel handles built, in order
    system_instruction,         \* self.system_instruction
    default_generation_config,  \* self.default_generation_config
    safety_settings,            \* self.safety_settings
    model,                      \* self.model
    chat_session,               \* self.chat_session
    ncalls,                     \* method calls made on the client so far
    sent,                       \* the requests handed to the service, in order
    console,                    \* the lines printed by the client, in order
    lastCall,                   \* the last method call: its arguments and the service's answer
    result,                     \* how the last call ended: what it returned or raised
    gen                         \* the generator returned by the last stream=True call

detVars == <<pc, canOpen, video, pos, frame, total, readLog, shownLog,
             lastKey, exitBy, released, destroyed, out>>

argVars == <<argPc, argv, argResult>>

selfVars == <<system_instruction, default_generation_config, safety_settings,
              model, chat_session>>

cliVars == <<env, apiKeyArg, personaArg, client, configureCalls, modelsBuilt,
             selfVars, ncalls, sent, console, lastCall, result, gen>>

vars == <<detVars, argVars, cliVars>>

\* ---------------------------------------------------------------------
\* Bounds of the model
MaxFrames == 3      \* longest video file
MaxRects  == 2      \* most rectangles detectMultiScale returns for a frame
MaxArgs   == 4      \* longest command line
MaxCalls  == 2      \* method calls made on one GeminiClient
MaxChunks == 2      \* chunks of a streamed response

\* ---------------------------------------------------------------------
\* The state of a program that is not running in the specification at hand
None == "<None>"    \* Python's None
NoKey == -1         \* cv2.waitKey returns -1 when no key was pressed

\* parse_args left by SystemExit (or not called yet): no namespace
Exit(status) == [status |-> status, problema |-> None]

DetectorIdle ==
    /\ pc = "idle" /\ canOpen = FALSE /\ video = <<>> /\ pos = 0 /\ frame = 0
    /\ total = 0 /\ readLog = <<>> /\ shownLog = <<>> /\ lastKey = NoKey
    /\ exitBy = "none" /\ released = 0 /\ destroyed = 0 /\ out = <<>>

ArgsIdle == argPc = "idle" /\ argv = <<>> /\ argResult = Exit("none")

\* values a method of the client hands back: a str (a sequence of pieces,
\* so that a prefix can be told), a raw Part, or a generator
Value(tag, v) == [tag |-> tag, v |-> v]
NoValue == Value("none", <<>>)

\* how a call ended
Outcome(op, kind, exc, val, caught) ==
    [op |-> op, kind |-> kind, exc |-> exc, val |-> val, caught |-> caught]
NoOutcome == Outcome("none", "none", "", NoValue, FALSE)

\* what the service answers to a request.  text: the response's text
\* attribute (Absent: no such attribute, Raises: reading it raises);
\* candidates: the content.parts of each candidate; chunks, failAt: the
\* chunk texts of a streamed answer and the chunk whose fetch fails (0: none)
Absent == "<absent>"
Raises == "<raises>"
Answer(text, candidates, chunks, failAt) ==
    [text |-> text, candidates |-> candidates, chunks |-> chunks, failAt |-> failAt]
NoAnswer == Answer(Absent, <<>>, <<>>, 0)

NoCall == [op |-> "none", stream |-> FALSE, response |-> NoAnswer]
NoGen == [state |-> "none", chunks |-> <<>>, next |-> 0, failAt |-> 0]

\* a GenerativeModel handle; a chat session (open = FALSE: self.chat_session is None)
Handle(persona, config, safety) == [persona |-> persona, config |-> config, safety |-> safety]
NoSession == [open |-> FALSE, persona |-> None, turns |-> 0]

\* the fields self.* before __init__ has set them
SelfUnset ==
    /\ system_instruction = None /\ default_generation_config = None
    /\ safety_settings = None /\ model = Handle(None, None, None)
    /\ chat_session = NoSession

ClientIdle ==
    /\ env = None /\ apiKeyArg = None /\ personaArg = None /\ client = "idle"
    /\ configureCalls = <<>> /\ modelsBuilt = <<>> /\ SelfUnset
    /\ ncalls = 0 /\ sent = <<>> /\ console = <<>>
    /\ lastCall = NoCall /\ result = NoOutcome /\ gen = NoGen

\* ---------------------------------------------------------------------
\* parse_args: argparse.ArgumentParser with the single required option
\* -p/--problema (utils.py lines 11-18) applied to sys.argv[1:] (line 20)

\* the option strings declared at lines 14-15
OptionStrings == {"-p", "--problema"}
\* ArgumentParser's default allow_abbrev: an unambiguous prefix of a long option selects it
Abbreviations == {"--prob"}
\* long option with its value attached by '='
Attached == {"--problema=b"}
AttachedValue(t) == "b"
\* the help option every ArgumentParser adds
HelpFlag == "-h"
\* an option string the parser does not know
UnknownFlag == "-x"
\* plain arguments
Values == {"a", "b"}

Tokens == OptionStrings \cup Abbreviations \cup Attached \cup {HelpFlag, UnknownFlag} \cup Values
Argvs == UNION {[1..n -> Tokens] : n \in 0..MaxArgs}

\* the argument strings that argparse resolves to the option, its value following
SelectsProblema(t) == t \in OptionStrings \cup Abbreviations

\* Mutant of Finish: the option declared without required=True
FinishNotRequired(problema, extras) ==
    IF extras THEN Exit("error") ELSE [status |-> "ok", problema |-> problema]

\* the end of parse_args: a missing required option and unrecognised
\* arguments are usage errors (exit status 2)
Finish(problema, extras) ==
    IF problema = None THEN Exit("error")
    ELSE IF extras THEN Exit("error")
    ELSE [status |-> "ok", problema |-> problema]

\* argparse consumes the argument strings from left to right
RECURSIVE Scan(_, _, _, _)
Scan(args, i, problema, extras) ==
    IF i > Len(args) THEN Finish(problema, extras)
    ELSE LET t == args[i] IN
         IF SelectsProblema(t)
            THEN IF i + 1 <= Len(args) /\ args[i + 1] \in Values
                    THEN Scan(args, i + 2, args[i + 1], extras)
                    ELSE Exit("error")            \* expected one argument
         ELSE IF t \in Attached THEN Scan(args, i + 1, AttachedValue(t), extras)
         ELSE IF t = HelpFlag THEN Exit("help")   \* prints the help, exit status 0
         ELSE Scan(args, i + 1, problema, TRUE)   \* unrecognised argument

ParseArgs(args) == Scan(args, 1, None, FALSE)

InitArgs ==
    /\ DetectorIdle
    /\ ClientIdle
    /\ argPc = "start"
    /\ argv \in Argvs
    /\ argResult = Exit("none")

\* lines 10-20
ParseArgsCall ==
    /\ argPc = "start"
    /\ argResult' = ParseArgs(argv)
    /\ argPc' = IF argResult'.status = "ok" THEN "returned" ELSE "exited"
    /\ UNCHANGED <<argv, detVars, cliVars>>

NextArgs == ParseArgsCall

SpecArgs == InitArgs /\ [][NextArgs]_vars

\* ---------------------------------------------------------------------
\* detectar_pessoas
OrdQ == 113         \* ord('q')
ByteMask == 256     \* `& 0xFF` keeps the value modulo 256
Keys == {NoKey, 97, OrdQ}

RECURSIVE SumSeq(_)
SumSeq(s) == IF s = <<>> THEN 0 ELSE s[1] + SumSeq(Tail(s))

Videos == UNION {[1..n -> 0..MaxRects] : n \in 0..MaxFrames}

Line(msg, val) == [msg |-> msg, val |-> val]

InitDetector ==
    /\ ArgsIdle
    /\ ClientIdle
    /\ pc = "open"
    /\ canOpen \in BOOLEAN
    /\ video \in Videos
    /\ pos = 0
    /\ frame = 0
    /\ total = 0
    /\ readLog = <<>>
    /\ shownLog = <<>>
    /\ lastKey = NoKey
    /\ exitBy = "none"
    /\ released = 0
    /\ destroyed = 0
    /\ out = <<>>

\* lines 4-13: build the detector, open the file, return early when it is not open
OpenVideo ==
    /\ UNCHANGED <<argVars, cliVars>>
    /\ pc = "open"
    /\ IF ~canOpen
          THEN /\ out' = Append(out, Line("Erro ao abrir a camera/video", 0))
               /\ pc' = "done"
          ELSE /\ out' = out
               /\ pc' = "read"
    /\ total' = 0
    /\ UNCHANGED <<canOpen, video, pos, frame, readLog, shownLog, lastKey,
                   exitBy, released, destroyed>>

\* Mutants of AfterFailedRead: `return` instead of `break`, `continue` instead of `break`
AfterFailedReadReturn == "done"
AfterFailedReadRetry == "read"

\* where a failed read sends the function: `break` leaves the loop (line 19)
AfterFailedRead == "release"

\* lines 16-19: ret, frame = cap.read(); a failed read prints and breaks
ReadFrame ==
    /\ UNCHANGED <<argVars, cliVars>>
    /\ pc = "read"
    /\ IF pos < Len(video)
          THEN /\ pos' = pos + 1
               /\ frame' = pos + 1
               /\ readLog' = Append(readLog, pos + 1)
               /\ pc' = "process"
               /\ UNCHANGED <<out, exitBy>>
          ELSE /\ out' = Append(out, Line("Erro ao capturar frame", 0))
               /\ exitBy' = "read"
               /\ pc' = AfterFailedRead
               /\ UNCHANGED <<pos, frame, readLog>>
    /\ UNCHANGED <<canOpen, video, total, shownLog, lastKey, released, destroyed>>

\* Mutant of Accumulate: `=` instead of `+=`
AccumulateOverwrite(t, nrects) == nrects

\* line 27: total_pessoas_detectadas += len(rects)
Accumulate(t, nrects) == t + nrects

\* lines 21-36: resize, grey, detect, count, draw, show
ProcessFrame ==
    /\ UNCHANGED <<argVars, cliVars>>
    /\ pc = "process"
    /\ total' = Accumulate(total, video[frame])
    /\ shownLog' = Append(shownLog, frame)
    /\ pc' = "waitkey"
    /\ UNCHANGED <<canOpen, video, pos, frame, readLog, lastKey, exitBy,
                   released, destroyed, out>>

\* line 38: cv2.waitKey(1) & 0xFF == ord('q')
QuitRequested(key) == (key % ByteMask) = OrdQ

\* lines 38-39: poll the keyboard, break on 'q', else next iteration
WaitKey ==
    /\ UNCHANGED <<argVars, cliVars>>
    /\ pc = "waitkey"
    /\ \E key \in Keys :
          /\ lastKey' = key
          /\ IF QuitRequested(key)
                THEN /\ exitBy' = "q"
                     /\ pc' = "release"
                ELSE /\ exitBy' = exitBy
                     /\ pc' = "read"
    /\ UNCHANGED <<canOpen, video, pos, frame, total, readLog, shownLog,
                   released, destroyed, out>>

\* Mutant of ReleaseCapture: the capture is never released
ReleaseCaptureForgotten ==
    /\ UNCHANGED <<argVars, cliVars>>
    /\ pc = "release"
    /\ pc' = "destroy"
    /\ UNCHANGED <<canOpen, video, pos, frame, total, readLog, shownLog,
                   lastKey, exitBy, released, destroyed, out>>

\* line 41: cap.release()
ReleaseCapture ==
    /\ UNCHANGED <<argVars, cliVars>>
    /\ pc = "release"
    /\ released' = released + 1
    /\ pc' = "destroy"
    /\ UNCHANGED <<canOpen, video, pos, frame, total, readLog, shownLog,
                   lastKey, exitBy, destroyed, out>>

\* line 42: cv2.destroyAllWindows()
DestroyWindows ==
    /\ UNCHANGED <<argVars, cliVars>>
    /\ pc = "destroy"
    /\ destroyed' = destroyed + 1
    /\ pc' = "print"
    /\ UNCHANGED <<canOpen, video, pos, frame, total, readLog, shownLog,
                   lastKey, exitBy, released, out>>

\* line 44: print the total
PrintTotal ==
    /\ UNCHANGED <<argVars, cliVars>>
    /\ pc = "print"
    /\ out' = Append(out, Line("Total de pessoas detectadas no video (soma por frame)", total))
    /\ pc' = "done"
    /\ UNCHANGED <<canOpen, video, pos, frame, total, readLog, shownLog,
                   lastKey, exitBy, released, destroyed>>

NextDetector ==
    \/ OpenVideo
    \/ ReadFrame
    \/ ProcessFrame
    \/ WaitKey
    \/ ReleaseCapture
    \/ DestroyWindows
    \/ PrintTotal

SpecDetector == InitDetector /\ [][NextDetector]_vars

\* The function runs on one thread that is never suspended for ever: each
\* step that can be taken is eventually taken.
LiveDetector == SpecDetector /\ WF_vars(NextDetector)

\* ---------------------------------------------------------------------
\* GeminiClient

Personas == {None, "vendedor"}           \* system_instruction given to __init__
Instructions == {"pirata"}               \* one-off instruction of an instructed call
EnvValues == {None, "", "env-key"}       \* GOOGLE_API_KEY: unset, empty, set
KeyArgs == {None, "", "arg-key"}         \* api_key: omitted, empty, given
CallConfigs == {None, "call_config"}     \* generation_config of a call

PartText == [kind |-> "text", v |-> "texto da parte"]
PartCall == [kind |-> "function_call", v |-> "chamada"]
CandidateLists ==
    { <<>>, << <<>> >>, << <<PartText>> >>, << <<PartCall>> >>,
      << <<PartCall, PartText>> >>, << <<>>, <<PartText>> >> }
\* an answer with a text attribute (its candidates are then not looked at),
\* one whose text attribute raises when read, and the answers without one
PlainAnswers ==
    {Answer("Brasilia", c, <<>>, 0) : c \in {<<>>, << <<PartText>> >>}}
      \cup {Answer(Raises, <<>>, <<>>, 0)}
      \cup {Answer(Absent, c, <<>>, 0) : c \in CandidateLists}
ChunkLists == UNION {[1..n -> {"pedaco"}] : n \in 0..MaxChunks}
StreamAnswers ==
    {Answer(Absent, <<>>, ch, f) : ch \in ChunkLists, f \in 0..MaxChunks}
\* what a request can come back with; NoAnswer when the request itself raises
Answers(requestOk, stream) ==
    IF ~requestOk THEN {NoAnswer}
    ELSE IF stream THEN StreamAnswers ELSE PlainAnswers

InitClient ==
    /\ DetectorIdle
    /\ ArgsIdle
    /\ env \in EnvValues
    /\ apiKeyArg \in KeyArgs
    /\ personaArg \in Personas
    /\ client = "unborn"
    /\ configureCalls = <<>>
    /\ modelsBuilt = <<>>
    /\ SelfUnset
    /\ ncalls = 0
    /\ sent = <<>>
    /\ console = <<>>
    /\ lastCall = NoCall
    /\ result = NoOutcome
    /\ gen = NoGen

\* Mutant of Falsy: `api_key is None` in place of `not api_key`
FalsyOnlyNone(x) == x = None

\* line 55: `not api_key`
Falsy(x) == x = None \/ x = ""

\* lines 53-78: __init__
Construct ==
    /\ UNCHANGED <<detVars, argVars>>
    /\ client = "unborn"
    /\ LET api_key == IF apiKeyArg = None THEN env ELSE apiKeyArg IN
       IF apiKeyArg = None /\ Falsy(api_key)
          THEN /\ client' = "failed"
               /\ result' = Outcome("__init__", "raise", "ValueError", NoValue, FALSE)
               /\ UNCHANGED <<configureCalls, modelsBuilt, selfVars>>
          ELSE /\ configureCalls' = Append(configureCalls, api_key)
               /\ \E built \in BOOLEAN :
                     IF built
                        THEN /\ default_generation_config' = "default_config"
                             /\ system_instruction' = personaArg
                             /\ safety_settings' = "[]"
                             /\ modelsBuilt' = Append(modelsBuilt, personaArg)
                             /\ model' = Handle(personaArg, "default_config", "[]")
                             /\ chat_session' = NoSession
                             /\ client' = "live"
                             /\ result' = Outcome("__init__", "return", "", NoValue, FALSE)
                        ELSE /\ client' = "failed"
                             /\ result' = Outcome("__init__", "raise", "ServiceError", NoValue, FALSE)
                             /\ UNCHANGED <<modelsBuilt, selfVars>>
    /\ UNCHANGED <<env, apiKeyArg, personaArg, ncalls, sent, console, lastCall, gen>>

\* `Erro: {e}`
ErrorString(e) == Value("str", <<"Erro: ", e>>)
Normal(val) == [raised |-> FALSE, val |-> val]
Raised == [raised |-> TRUE, val |-> NoValue]

\* lines 113-128: the shape of generate_response's result
NormaliseGenerate(response, stream) ==
    IF stream THEN Normal(Value("generator", <<>>))
    ELSE IF response.text = Raises THEN Raised
    ELSE IF response.text # Absent THEN Normal(Value("str", <<response.text>>))
    ELSE IF response.candidates # <<>> /\ response.candidates[1] # <<>>
         THEN LET first_part == response.candidates[1][1] IN
              Normal(IF first_part.kind = "text"
                        THEN Value("str", <<first_part.v>>)
                        ELSE Value("part", <<first_part.v>>))
    ELSE Normal(Value("str", <<>>))

\* lines 179-188: the shape of generate_response_instructed's result
NormaliseInstructed(response, stream) ==
    IF stream THEN Normal(Value("generator", <<>>))
    ELSE IF response.text = Raises THEN Raised
    ELSE IF response.text # Absent THEN Normal(Value("str", <<response.text>>))
    ELSE IF response.candidates # <<>> /\ response.candidates[1] # <<>>
         THEN LET first_part == response.candidates[1][1] IN
              Normal(IF first_part.kind = "text"
                        THEN Value("str", <<first_part.v>>)
                        ELSE Value("part", <<first_part.v>>))
    ELSE Normal(Value("str", <<>>))

\* Mutant of NormaliseChat: the candidates are not looked at
NormaliseChatTextOnly(response, stream) ==
    IF stream THEN Normal(Value("generator", <<>>))
    ELSE IF response.text = Raises THEN Raised
    ELSE IF response.text # Absent THEN Normal(Value("str", <<response.text>>))
    ELSE Normal(Value("str", <<>>))

\* lines 231-240: the shape of send_chat_message's result
NormaliseChat(response, stream) ==
    IF stream THEN Normal(Value("generator", <<>>))
    ELSE IF response.text = Raises THEN Raised
    ELSE IF response.text # Absent THEN Normal(Value("str", <<response.text>>))
    ELSE IF response.candidates # <<>> /\ response.candidates[1] # <<>>
         THEN LET first_part == response.candidates[1][1] IN
              Normal(IF first_part.kind = "text"
                        THEN Value("str", <<first_part.v>>)
                        ELSE Value("part", <<first_part.v>>))
    ELSE Normal(Value("str", <<>>))

\* the try/except of the three methods: the request (requestOk: it does not
\* raise), the shaping of the answer, and `except Exception` printing and
\* returning the error string.  The generator of a stream=True call is
\* returned unstarted: its chunks are fetched by the caller, outside the try.
TryBlock(op, printed, requestOk, shaped, response, stream) ==
    IF requestOk /\ ~shaped.raised
       THEN /\ result' = Outcome(op, "return", "", shaped.val, FALSE)
            /\ console' = console
            /\ gen' = IF stream
                         THEN [state |-> "unstarted", chunks |-> response.chunks,
                               next |-> 1, failAt |-> response.failAt]
                         ELSE NoGen
       ELSE /\ result' = Outcome(op, "return", "", ErrorString("falha"), TRUE)
            /\ console' = Append(console, printed)
            /\ gen' = NoGen

CanCall == client = "live" /\ ncalls < MaxCalls

\* lines 104-131: generate_response
GenerateResponse ==
    /\ UNCHANGED <<detVars, argVars>>
    /\ CanCall
    /\ \E generation_config \in CallConfigs, stream \in BOOLEAN, requestOk \in BOOLEAN :
       \E response \in Answers(requestOk, stream) :
          LET effective_config == IF generation_config # None THEN generation_config
                                  ELSE default_generation_config
          IN /\ sent' = Append(sent, [op |-> "generate_response", persona |-> model.persona,
                                      config |-> effective_config])
             /\ lastCall' = [op |-> "generate_response", stream |-> stream,
                             response |-> response]
             /\ TryBlock("generate_response", "Erro ao gerar resposta", requestOk,
                         NormaliseGenerate(response, stream), response, stream)
    /\ ncalls' = ncalls + 1
    /\ UNCHANGED <<env, apiKeyArg, personaArg, client, configureCalls, modelsBuilt, selfVars>>

\* Mutant of ModelAfterInstructed: the one-off handle replaces self.model
ModelAfterInstructedLeaks(self_model, instructed_model) == instructed_model

\* lines 166-171: the new handle is bound to the local instructed_model;
\* self.model is not assigned
ModelAfterInstructed(self_model, instructed_model) == self_model

\* lines 161-191: generate_response_instructed
GenerateResponseInstructed ==
    /\ UNCHANGED <<detVars, argVars>>
    /\ CanCall
    /\ \E instruction \in Instructions, generation_config \in CallConfigs,
          stream \in BOOLEAN, cloned \in BOOLEAN, built \in BOOLEAN, requestOk \in BOOLEAN :
       \E response \in Answers(cloned /\ built /\ requestOk, stream) :
          LET effective_config == IF generation_config # None THEN generation_config
                                  ELSE default_generation_config
              instructed_model == Handle(instruction, effective_config, safety_settings)
              call == [op |-> "generate_response_instructed", stream |-> stream,
                       response |-> NoAnswer]
          IN IF generation_config = None /\ ~cloned
                THEN \* line 162, outside the try: the copy of the default config raises
                     /\ result' = Outcome("generate_response_instructed", "raise",
                                          "ServiceError", NoValue, FALSE)
                     /\ lastCall' = call
                     /\ gen' = NoGen
                     /\ UNCHANGED <<modelsBuilt, model, sent, console>>
             ELSE IF ~built
                THEN \* lines 166-171, outside the try: GenerativeModel(...) raises
                     /\ result' = Outcome("generate_response_instructed", "raise",
                                          "ServiceError", NoValue, FALSE)
                     /\ lastCall' = call
                     /\ gen' = NoGen
                     /\ UNCHANGED <<modelsBuilt, model, sent, console>>
             ELSE /\ modelsBuilt' = Append(modelsBuilt, instruction)
                  /\ model' = ModelAfterInstructed(model, instructed_model)
                  /\ sent' = Append(sent, [op |-> "generate_response_instructed",
                                           persona |-> instructed_model.persona,
                                           config |-> instructed_model.config])
                  /\ lastCall' = [call EXCEPT !.response = response]
                  /\ TryBlock("generate_response_instructed", "Erro ao gerar resposta instruida",
                              requestOk, NormaliseInstructed(response, stream), response, stream)
    /\ ncalls' = ncalls + 1
    /\ UNCHANGED <<env, apiKeyArg, personaArg, client, configureCalls,
                   system_instruction, default_generation_config, safety_settings,
                   chat_session>>

\* lines 205-206: start_chat
StartChat ==
    /\ UNCHANGED <<detVars, argVars>>
    /\ CanCall
    /\ \E started \in BOOLEAN :
          IF started
             THEN /\ chat_session' = [open |-> TRUE, persona |-> model.persona, turns |-> 0]
                  /\ console' = Append(console, "Sessao de chat iniciada")
                  /\ result' = Outcome("start_chat", "return", "", NoValue, FALSE)
             ELSE /\ result' = Outcome("start_chat", "raise", "ServiceError", NoValue, FALSE)
                  /\ UNCHANGED <<chat_session, console>>
    /\ lastCall' = [op |-> "start_chat", stream |-> FALSE, response |-> NoAnswer]
    /\ gen' = NoGen
    /\ ncalls' = ncalls + 1
    /\ UNCHANGED <<env, apiKeyArg, personaArg, client, configureCalls, modelsBuilt,
                   system_instruction, default_generation_config, safety_settings,
                   model, sent>>

\* Mutant of NoSessionOpen: the guard of line 226 dropped
NoSessionOpenUnchecked(session) == FALSE

\* line 226: `not self.chat_session`
NoSessionOpen(session) == ~session.open

\* lines 226-243: send_chat_message
SendChatMessage ==
    /\ UNCHANGED <<detVars, argVars>>
    /\ CanCall
    /\ \E stream \in BOOLEAN, requestOk \in BOOLEAN :
       \E response \in Answers(chat_session.open /\ requestOk, stream) :
          IF NoSessionOpen(chat_session)
             THEN /\ result' = Outcome("send_chat_message", "raise", "RuntimeError", NoValue, FALSE)
                  /\ lastCall' = [op |-> "send_chat_message", stream |-> stream,
                                  response |-> NoAnswer]
                  /\ gen' = NoGen
                  /\ UNCHANGED <<chat_session, sent, console>>
             ELSE \* None.send_message raises AttributeError inside the try
                  LET reached == chat_session.open
                      ok == reached /\ requestOk
                  IN /\ sent' = IF reached
                                   THEN Append(sent, [op |-> "send_chat_message",
                                                      persona |-> chat_session.persona,
                                                      config |-> model.config])
                                   ELSE sent
                     /\ chat_session' = IF ok THEN [chat_session EXCEPT !.turns = @ + 1]
                                        ELSE chat_session
                     /\ lastCall' = [op |-> "send_chat_message", stream |-> stream,
                                     response |-> response]
                     /\ TryBlock("send_chat_message", "Erro ao enviar mensagem no chat", ok,
                                 NormaliseChat(response, stream), response, stream)
    /\ ncalls' = ncalls + 1
    /\ UNCHANGED <<env, apiKeyArg, personaArg, client, configureCalls, modelsBuilt,
                   system_instruction, default_generation_config, safety_settings, model>>

\* lines 115, 180, 232: the generator expression `(chunk.text for chunk in
\* response)`, advanced by the caller; the fetch of a chunk that fails
\* raises in the caller, outside the method's try
NextChunk ==
    /\ UNCHANGED <<detVars, argVars>>
    /\ gen.state \in {"unstarted", "running"}
    /\ IF gen.failAt = gen.next
          THEN /\ gen' = [gen EXCEPT !.state = "failed"]
               /\ result' = Outcome(result.op, "raise", "ServiceError", NoValue, FALSE)
          ELSE IF gen.next > Len(gen.chunks)
          THEN /\ gen' = [gen EXCEPT !.state = "exhausted"]
               /\ result' = Outcome(result.op, "raise", "StopIteration", NoValue, FALSE)
          ELSE /\ gen' = [gen EXCEPT !.state = "running", !.next = @ + 1]
               /\ result' = Outcome(result.op, "yield", "", Value("str", <<gen.chunks[gen.next]>>), FALSE)
    /\ UNCHANGED <<env, apiKeyArg, personaArg, client, configureCalls, modelsBuilt,
                   selfVars, ncalls, sent, console, lastCall>>

NextClient ==
    \/ Construct
    \/ GenerateResponse
    \/ GenerateResponseInstructed
    \/ StartChat
    \/ SendChatMessage
    \/ NextChunk

SpecClient == InitClient /\ [][NextClient]_vars

\* =====================================================================
\* Properties of detectar_pessoas

MsgOpen  == "Erro ao abrir a camera/video"
MsgRead  == "Erro ao capturar frame"
MsgTotal == "Total de pessoas detectadas no video (soma por frame)"

Printed(msg) == \E i \in 1..Len(out) : out[i].msg = msg
TotalPrinted == Printed(MsgTotal)

\* the sum of len(rects) over the frames read successfully so far
SumOfFramesRead == SumSeq([i \in 1..Len(readLog) |-> video[readLog[i]]])

AfterLoop == pc \in {"release", "destroy", "print"} \/ (pc = "done" /\ canOpen)

\* C3: at the end of every loop iteration and when the total is printed,
\* total_pessoas_detectadas is the sum of len(rects) over exactly the frames
\* read successfully so far (each once, the frame on which 'q' is pressed
\* included); a failed read adds nothing and the counter never decreases.
C3_TotalIsSumOfFrames ==
    /\ [](pc # "process" => total = SumOfFramesRead)
    /\ [](\A i \in 1..Len(out) : out[i].msg = MsgTotal => out[i].val = SumOfFramesRead)
    /\ [][total' >= total]_vars
    /\ [][exitBy = "none" /\ exitBy' = "read" => total' = total]_vars

C3_Witness ==
    /\ pc = "done" /\ TotalPrinted /\ exitBy = "q"
    /\ Len(readLog) >= 2 /\ total >= 3
    /\ video[1] > 0 /\ video[2] > 0

\* C7: in every run in which the video was opened, once the loop has exited
\* (failed read or 'q') the capture is released and the windows are destroyed,
\* each exactly once and both before the total is printed; no frame is read
\* or displayed after the release.
C7_ReleaseOnExit ==
    /\ [](released <= 1 /\ destroyed <= 1)
    /\ [](pc \in {"print", "done"} /\ canOpen => released = 1 /\ destroyed = 1)
    /\ [](TotalPrinted => released = 1 /\ destroyed = 1)
    /\ [](released >= 1 \/ destroyed >= 1 => exitBy \in {"read", "q"})
    /\ [][released >= 1 => pos' = pos /\ readLog' = readLog /\ shownLog' = shownLog]_vars
    /\ [][~TotalPrinted /\ TotalPrinted' => released = 1 /\ destroyed = 1]_vars

C7_Witness ==
    /\ pc = "done" /\ exitBy = "read" /\ Len(shownLog) >= 1
    /\ released = 1 /\ destroyed = 1 /\ TotalPrinted

\* C8 as stated: after a failure to open or a failed read the function prints
\* an error message and returns with no further step; in particular the
\* running total is not printed.
C8_AsStated ==
    /\ (~canOpen /\ pc # "open" => Printed(MsgOpen))
    /\ (exitBy = "read" => Printed(MsgRead))
    /\ (Printed(MsgOpen) \/ Printed(MsgRead) => ~TotalPrinted)

\* C8 amended: a failure to open is a fatal early return: the message is
\* printed and nothing else runs (no read, no release, no total).  A failed
\* read prints its message and leaves the loop: no further frame is read or
\* processed, but the capture is released, the windows are destroyed and the
\* running total is printed.
C8_FailuresAmended ==
    /\ [](~canOpen /\ pc # "open" =>
             /\ pc = "done" /\ out = <<Line(MsgOpen, 0)>>
             /\ readLog = <<>> /\ shownLog = <<>> /\ released = 0 /\ destroyed = 0)
    /\ [](exitBy = "read" =>
             /\ Printed(MsgRead)
             /\ pc \in {"release", "destroy", "print", "done"})
    /\ [](exitBy = "read" /\ pc = "done" =>
             /\ released = 1 /\ destroyed = 1
             /\ out = <<Line(MsgRead, 0), Line(MsgTotal, total)>>)
    /\ [][exitBy = "read" =>
             /\ readLog' = readLog /\ shownLog' = shownLog
             /\ pos' = pos /\ total' = total]_vars

C8_Witness ==
    /\ pc = "done" /\ exitBy = "read" /\ Len(readLog) >= 1
    /\ Printed(MsgRead) /\ TotalPrinted

\* C9: once the source is open, frames are read strictly in source order, one
\* read per iteration, none skipped, repeated or retried; the loop stops at
\* the first failed read or at the first 'q' seen after a frame has been
\* processed and displayed; for a finite source the function reaches its
\* final print.
C9_SequentialUntilStop ==
    /\ [](readLog = [i \in 1..pos |-> i] /\ pos <= Len(video))
    /\ [](shownLog = IF pc = "process" THEN SubSeq(readLog, 1, pos - 1) ELSE readLog)
    /\ [](AfterLoop <=> exitBy # "none")
    /\ [](exitBy = "read" => pos = Len(video))
    /\ [](exitBy = "q" => pos >= 1 /\ shownLog = readLog /\ lastKey % 256 = 113)
    /\ [](pc = "read" /\ pos >= 1 => lastKey % 256 # 113)
    /\ [][exitBy # "none" => pos' = pos /\ readLog' = readLog /\ shownLog' = shownLog]_vars
    /\ [][pc = "read" /\ pc' = "read" => UNCHANGED vars]_vars
    /\ (pc = "read" ~> (pc = "done" /\ TotalPrinted))

C9_Witness ==
    /\ pc = "done" /\ TotalPrinted /\ exitBy = "q"
    /\ Len(video) = 3 /\ readLog = <<1, 2>>

\* =====================================================================
\* Properties of parse_args

ArgsDone == argPc # "start"
Positions == 1..Len(argv)

\* the argument at position i spells -p or --problema in full (the value
\* following, or attached with '=')
SpellsFlag(i) == argv[i] \in {"-p", "--problema", "--problema=b"}
SuppliesValue(i, v) ==
    \/ argv[i] \in {"-p", "--problema"} /\ i < Len(argv) /\ argv[i + 1] = v /\ v \in {"a", "b"}
    \/ argv[i] = "--problema=b" /\ v = "b"

GivesValue(i, v) ==
    \/ argv[i] \in {"-p", "--problema", "--prob"} /\ i < Len(argv) /\ argv[i + 1] = v
    \/ argv[i] = "--problema=b" /\ v = "b"
IsOccurrence(i) == argv[i] \in {"-p", "--problema", "--prob", "--problema=b"}

Methods == {"generate_response", "generate_response_instructed", "send_chat_message"}
Built == client \in {"failed", "live"}
KeyMissing == apiKeyArg = "<None>" /\ (env = "<None>" \/ env = "")

\* C1: __init__ with api_key=None and GOOGLE_API_KEY unset or empty raises
\* ValueError before any external call: genai.configure is not called, no
\* GenerativeModel is built, no client (and no chat_session) exists.  With
\* an explicit api_key or a non-empty variable this ValueError is not raised.
C1_ConstructNeedsKey ==
    Built =>
      /\ KeyMissing =>
            /\ client = "failed" /\ result.op = "__init__"
            /\ result.kind = "raise" /\ result.exc = "ValueError"
            /\ configureCalls = <<>> /\ modelsBuilt = <<>> /\ sent = <<>>
            /\ ~chat_session.open /\ ncalls = 0
      /\ ~KeyMissing =>
            /\ result.exc # "ValueError"
            /\ configureCalls = <<IF apiKeyArg = "<None>" THEN env ELSE apiKeyArg>>

C1_Witness ==
    /\ client = "failed" /\ result.exc = "ValueError"
    /\ apiKeyArg = "<None>" /\ env = ""

\* a step that is a call of the method `op`
CallOf(op) == ncalls' = ncalls + 1 /\ result'.op = op

\* C2: while no start_chat has succeeded (chat_session is None) every
\* send_chat_message raises RuntimeError to the caller (no 'Erro: ...'
\* string is returned), nothing is sent to the service and chat_session
\* stays None.
C2_SendBeforeStart ==
    /\ [][CallOf("send_chat_message") /\ ~chat_session.open =>
             /\ result'.kind = "raise" /\ result'.exc = "RuntimeError"
             /\ ~result'.caught /\ result'.val.tag = "none"
             /\ sent' = sent /\ console' = console
             /\ ~chat_session'.open]_vars
    /\ [](~chat_session.open =>
             \A i \in 1..Len(sent) : sent[i].op # "send_chat_message")

C2_Witness ==
    /\ result.op = "send_chat_message" /\ result.exc = "RuntimeError"
    /\ ncalls = 2 /\ ~chat_session.open /\ sent = <<>>

\* C4 as stated: for generate_response, generate_response_instructed and
\* send_chat_message with a session open, every failure of an external call
\* made for the operation (building the temporary handle, the request,
\* reading the text, producing the streamed chunks) is turned into a returned
\* 'Erro: ' string that is also printed; none is raised to the caller.
C4_AsStated ==
    result.op \in Methods =>
      /\ result.exc # "ServiceError"
      /\ result.caught =>
            /\ result.kind = "return" /\ result.val.tag = "str"
            /\ result.val.v[1] = "Erro: "
            /\ console # <<>>

\* C5: generate_response_instructed leaves self.system_instruction,
\* self.model, self.default_generation_config, self.safety_settings and
\* self.chat_session as they were, whether it succeeds, returns an error
\* string or raises; every later generate_response or send_chat_message
\* request carries the persona given at construction, never the one-off
\* instruction.
C5_InstructedLeavesSelf ==
    /\ [][CallOf("generate_response_instructed") =>
             /\ system_instruction' = system_instruction
             /\ model' = model
             /\ default_generation_config' = default_generation_config
             /\ safety_settings' = safety_settings
             /\ chat_session' = chat_session]_vars
    /\ [](\A i \in 1..Len(sent) :
             IF sent[i].op = "generate_response_instructed"
                THEN sent[i].persona = "pirata"
                ELSE sent[i].persona = personaArg /\ sent[i].persona # "pirata")

C5_Witness ==
    /\ Len(sent) = 2 /\ personaArg = "vendedor"
    /\ sent[1].op = "generate_response_instructed" /\ sent[1].persona = "pirata"
    /\ sent[2].op = "generate_response" /\ sent[2].persona = "vendedor"
    /\ model.persona = "vendedor"

\* the rule of C10 for a stream=False answer
ExpectedShape(r) ==
    IF r.text # "<absent>" THEN [tag |-> "str", v |-> <<r.text>>]
    ELSE IF Len(r.candidates) > 0 /\ Len(r.candidates[1]) > 0
         THEN LET p == r.candidates[1][1] IN
              IF p.kind = "text" THEN [tag |-> "str", v |-> <<p.v>>]
              ELSE [tag |-> "part", v |-> <<p.v>>]
    ELSE [tag |-> "str", v |-> <<>>]

\* C10: a call of one of the three methods in which nothing raises shapes
\* the answer by one rule: stream=True gives a generator that has consumed
\* no chunk when it is returned and then yields the chunks' texts in order;
\* stream=False gives response.text when there is one, else the first part
\* of the first candidate (its text, or the raw part), else the empty string.
C10_OneShapeRule ==
    /\ [](result.op \in Methods /\ result.kind = "return" /\ ~result.caught =>
             IF lastCall.stream
                THEN /\ result.val.tag = "generator"
                     /\ gen.state = "unstarted" /\ gen.next = 1
                     /\ gen.chunks = lastCall.response.chunks
                ELSE result.val = ExpectedShape(lastCall.response))
    /\ [][result'.kind = "yield" =>
             /\ result'.val = [tag |-> "str", v |-> <<lastCall.response.chunks[gen.next]>>]
             /\ gen'.next = gen.next + 1
             /\ gen'.chunks = gen.chunks]_vars

C10_Witness ==
    /\ result.op = "send_chat_message" /\ result.kind = "return" /\ ~result.caught
    /\ ~lastCall.stream /\ result.val = [tag |-> "part", v |-> <<"chamada">>]

====
